---- MODULE Spec2Model ----
(***************************************************************************)
(* Scipher document processing pipeline.                                   *)
(*                                                                         *)
(* State: the three relational tables (documents, sections,                *)
(* processing_jobs), the upload directory, the processed-data directory    *)
(* and, for every invocation of DocumentProcessor.process_document, the    *)
(* coroutine's position (its pending await), its local variables and the   *)
(* unit of work of its AsyncSession.                                       *)
(***************************************************************************)
EXTENDS Integers, Sequences, FiniteSets, TLC

\* ---------------------------------------------------------------- bounds
MaxRuns == 2
MaxFaults == 1
\* The largest file size, in MB, and the longest text given to the pure functions.
MaxFileMB == 50
MaxTextLen == 7
\* The texts given to _calculate_quality: at most MaxQualityLen characters,
\* made of at most MaxRepeat repetitions of a fragment.
MaxRepeat == 100
MaxQualityLen == 160
\* Font sizes of a span, in tenths of a point, and its font flags (a bit set).
MaxFontSize == 200
MaxFontFlags == 31

DocIds == {"d1", "d2"}
RunIds == 1..MaxRuns

\* Python None / SQL NULL.
None == "None"
\* An ORM attribute whose loaded value was discarded by a rollback.
Expired == "Expired"

\* ------------------------------------------------------------ enumerations
\* ProcessingStatus with a fifth member RUNNING.
ProcessingStatusWithRunning ==
    [UPLOADED |-> "uploaded", PROCESSING |-> "processing",
     COMPLETED |-> "completed", FAILED |-> "failed", RUNNING |-> "running"]

\* models/schemas.py: ProcessingStatus has exactly these four members.
ProcessingStatus ==
    [UPLOADED |-> "uploaded", PROCESSING |-> "processing",
     COMPLETED |-> "completed", FAILED |-> "failed"]

JobType ==
    [EXTRACTION |-> "extraction", SUMMARIZATION |-> "summarization",
     GLOSSARY |-> "glossary", CLASSIFICATION |-> "classification"]

\* Attribute access Enum.NAME: defined only for the members of the enum;
\* any other name raises AttributeError.
HasMember(enum, name) == name \in DOMAIN enum

\* str(e) of the AttributeError raised by ProcessingStatus.RUNNING.
AttributeErrorText == "type object 'ProcessingStatus' has no attribute 'RUNNING'"

\* ------------------------------------------------------------------ files
\* What the uploaded PDF is, which decides what the extractor does with it.
FileKinds == {"text", "empty", "corrupt", "slow", "not_pdf"}

MB == 1024 * 1024

\* st_size of the uploaded file of each kind.
FileSize(kind) ==
    CASE kind = "text"    -> 1 * MB
      [] kind = "empty"   -> 5 * MB
      [] kind = "corrupt" -> 7 * MB
      [] kind = "slow"    -> 50 * MB
      [] OTHER            -> 1 * MB

Min(a, b) == IF a <= b THEN a ELSE b
Max(a, b) == IF a >= b THEN a ELSE b

\* The timeout without the clamp to [120, 600].
TimeoutWithoutClamp(st_size) == (st_size * 20) \div MB

\* timeout = min(600, max(120, int(file_size_mb * 20)))
Timeout(st_size) == Min(600, Max(120, (st_size * 20) \div MB))

\* ------------------------------------------------------------------- text
\* A text is a sequence of one-character strings.
NL == "\n"
Whitespace == {" ", NL, "\t"}
Lowercase ==
    {"a", "b", "c", "d", "e", "f", "g", "h", "i", "j", "k", "l", "m",
     "n", "o", "p", "q", "r", "s", "t", "u", "v", "w", "x", "y", "z"}
Uppercase ==
    {"A", "B", "C", "D", "E", "F", "G", "H", "I", "J", "K", "L", "M",
     "N", "O", "P", "Q", "R", "S", "T", "U", "V", "W", "X", "Y", "Z"}
Digits == {"0", "1", "2", "3", "4", "5", "6", "7", "8", "9"}
\* The characters of the literal '.,!?;:()-"' in _calculate_quality.
AllowedPunctuation == {".", ",", "!", "?", ";", ":", "(", ")", "-", "\""}

isalpha(c) == c \in Lowercase \cup Uppercase
isspace(c) == c \in Whitespace
isalnum(c) == isalpha(c) \/ c \in Digits

\* str.lower() on one character.
LowerOf ==
    <<<<"A", "a">>, <<"B", "b">>, <<"C", "c">>, <<"D", "d">>, <<"E", "e">>,
      <<"F", "f">>, <<"G", "g">>, <<"H", "h">>, <<"I", "i">>, <<"J", "j">>,
      <<"K", "k">>, <<"L", "l">>, <<"M", "m">>, <<"N", "n">>, <<"O", "o">>,
      <<"P", "p">>, <<"Q", "q">>, <<"R", "r">>, <<"S", "s">>, <<"T", "t">>,
      <<"U", "u">>, <<"V", "v">>, <<"W", "w">>, <<"X", "x">>, <<"Y", "y">>,
      <<"Z", "z">>>>
lower(c) ==
    IF c \in Uppercase
    THEN LowerOf[CHOOSE i \in 1..Len(LowerOf) : LowerOf[i][1] = c][2]
    ELSE c

RECURSIVE SplitFrom(_, _, _, _)
\* str.split(sep) for a one-character separator: cur is the piece being read.
SplitFrom(s, i, sep, cur) ==
    IF i > Len(s) THEN <<cur>>
    ELSE IF s[i] = sep THEN <<cur>> \o SplitFrom(s, i + 1, sep, <<>>)
    ELSE SplitFrom(s, i + 1, sep, Append(cur, s[i]))

Split(s, sep) == SplitFrom(s, 1, sep, <<>>)

RECURSIVE LStrip(_)
LStrip(s) == IF s # <<>> /\ isspace(Head(s)) THEN LStrip(Tail(s)) ELSE s

RECURSIVE RStrip(_)
RStrip(s) ==
    IF s # <<>> /\ isspace(s[Len(s)]) THEN RStrip(SubSeq(s, 1, Len(s) - 1)) ELSE s

\* str.strip()
Strip(s) == RStrip(LStrip(s))

\* str.startswith(prefix)
StartsWith(s, prefix) ==
    Len(s) >= Len(prefix) /\ SubSeq(s, 1, Len(prefix)) = prefix

\* s[n:]
DropFirst(s, n) == SubSeq(s, n + 1, Len(s))

\* needle in haystack
Contains(haystack, needle) ==
    \E i \in 1..(Len(haystack) - Len(needle) + 1) :
        SubSeq(haystack, i, i + Len(needle) - 1) = needle

\* sum(c.isalpha() or c.isspace() for c in text)
AlphaOrSpaceCount(s) ==
    Cardinality({i \in 1..Len(s) : isalpha(s[i]) \/ isspace(s[i])})

\* sum(not c.isalnum() and not c.isspace() and c not in '.,!?;:()-"' for c in text)
SpecialCount(s) ==
    Cardinality({i \in 1..Len(s) :
                    ~isalnum(s[i]) /\ ~isspace(s[i]) /\ s[i] \notin AllowedPunctuation})

\* text.split(): the positions at which a maximal run of non-whitespace starts.
WordStarts(s) ==
    {i \in 1..Len(s) : ~isspace(s[i]) /\ (i = 1 \/ isspace(s[i - 1]))}

\* The last position of the word that starts at i.
WordLast(s, i) ==
    CHOOSE j \in i..Len(s) :
        /\ j = Len(s) \/ isspace(s[j + 1])
        /\ \A k \in i..j : ~isspace(s[k])

\* [w for w in text.split() if w.isalpha()], by the positions where they start.
AlphaWordStarts(s) ==
    {i \in WordStarts(s) : \A k \in i..WordLast(s, i) : isalpha(s[k])}

\* sum(len(w) for w in words)
AlphaWordChars(s) ==
    Cardinality(UNION {i..WordLast(s, i) : i \in AlphaWordStarts(s)})

\* The characters of the class [.!?] of the sentence pattern.
IsStop(c) == c \in {".", "!", "?"}

\* The last position of the piece of re.split(r'[.!?]+', text) that starts at i.
PieceLast(s, i) ==
    CHOOSE j \in i..Len(s) :
        /\ j = Len(s) \/ IsStop(s[j + 1])
        /\ \A k \in i..j : ~IsStop(s[k])

\* [s.strip() for s in re.split(r'[.!?]+', text) if s.strip()], by the
\* positions where the pieces that are not blank start.
SentenceStarts(s) ==
    {i \in 1..Len(s) :
        /\ ~IsStop(s[i]) /\ (i = 1 \/ IsStop(s[i - 1]))
        /\ \E k \in i..PieceLast(s, i) : ~isspace(s[k])}

\* sum(len(s.split()) for s in sentences): a word of a sentence is a maximal
\* run of characters that are neither whitespace nor of the class [.!?].
SentenceWordCount(s) ==
    Cardinality({i \in 1..Len(s) :
                    /\ ~isspace(s[i]) /\ ~IsStop(s[i])
                    /\ i = 1 \/ isspace(s[i - 1]) \/ IsStop(s[i - 1])})

Lowered(s) == [i \in 1..Len(s) |-> lower(s[i])]

research_terms ==
    { <<"a", "b", "s", "t", "r", "a", "c", "t">>,
      <<"i", "n", "t", "r", "o", "d", "u", "c", "t", "i", "o", "n">>,
      <<"m", "e", "t", "h", "o", "d">>,
      <<"r", "e", "s", "u", "l", "t">>,
      <<"c", "o", "n", "c", "l", "u", "s", "i", "o", "n">>,
      <<"r", "e", "f", "e", "r", "e", "n", "c", "e">> }

\* The length below which _calculate_quality returns 0.0.
MinQualityLength == 100

\* _calculate_quality without the clamp of line 270.
_calculate_quality_without_clamp(text) ==
    IF Len(text) < MinQualityLength THEN 0
    ELSE
      LET n == Len(text)
          alpha == AlphaOrSpaceCount(text)
          special == SpecialCount(text)
          words == Cardinality(AlphaWordStarts(text))
          wordChars == AlphaWordChars(text)
          sentences == Cardinality(SentenceStarts(text))
          sentenceWords == SentenceWordCount(text)
          s0 == 10
          s1 == IF 10 * alpha < 7 * n THEN s0 - 3 ELSE s0
          s2 == IF 100 * special > 15 * n THEN s1 - 2 ELSE s1
          s3 == IF words = 0 THEN s2
                ELSE IF wordChars < 3 * words THEN s2 - 3
                ELSE IF wordChars > 10 * words THEN s2 - 1
                ELSE s2
          s4 == IF sentences > 5
                   /\ 5 * sentences < sentenceWords
                   /\ sentenceWords < 50 * sentences
                THEN s3 + 1 ELSE s3
          s5 == IF \E term \in research_terms : Contains(Lowered(text), term)
                THEN s4 + 1 ELSE s4
      IN  s5

\* _calculate_quality with the sentence bonus given also for a mean of
\* exactly 5 words per sentence (5 <= in place of 5 <).
_calculate_quality_inclusive_sentence_bound(text) ==
    IF Len(text) < MinQualityLength THEN 0
    ELSE
      LET n == Len(text)
          alpha == AlphaOrSpaceCount(text)
          special == SpecialCount(text)
          words == Cardinality(AlphaWordStarts(text))
          wordChars == AlphaWordChars(text)
          sentences == Cardinality(SentenceStarts(text))
          sentenceWords == SentenceWordCount(text)
          s0 == 10
          s1 == IF 10 * alpha < 7 * n THEN s0 - 3 ELSE s0
          s2 == IF 100 * special > 15 * n THEN s1 - 2 ELSE s1
          s3 == IF words = 0 THEN s2
                ELSE IF wordChars < 3 * words THEN s2 - 3
                ELSE IF wordChars > 10 * words THEN s2 - 1
                ELSE s2
          s4 == IF sentences > 5
                   /\ 5 * sentences <= sentenceWords
                   /\ sentenceWords < 50 * sentences
                THEN s3 + 1 ELSE s3
          s5 == IF \E term \in research_terms : Contains(Lowered(text), term)
                THEN s4 + 1 ELSE s4
      IN  Max(0, Min(10, s5))

\* DocumentProcessor._calculate_quality; the score is in tenths (10 = 1.0).
\* The ratio tests are the code's divisions, cross-multiplied.
_calculate_quality(text) ==
    IF Len(text) < MinQualityLength THEN 0
    ELSE
      LET n == Len(text)
          alpha == AlphaOrSpaceCount(text)
          special == SpecialCount(text)
          words == Cardinality(AlphaWordStarts(text))
          wordChars == AlphaWordChars(text)
          sentences == Cardinality(SentenceStarts(text))
          sentenceWords == SentenceWordCount(text)
          s0 == 10
          s1 == IF 10 * alpha < 7 * n THEN s0 - 3 ELSE s0
          s2 == IF 100 * special > 15 * n THEN s1 - 2 ELSE s1
          s3 == IF words = 0 THEN s2
                ELSE IF wordChars < 3 * words THEN s2 - 3
                ELSE IF wordChars > 10 * words THEN s2 - 1
                ELSE s2
          s4 == IF sentences > 5
                   /\ 5 * sentences < sentenceWords
                   /\ sentenceWords < 50 * sentences
                THEN s3 + 1 ELSE s3
          s5 == IF \E term \in research_terms : Contains(Lowered(text), term)
                THEN s4 + 1 ELSE s4
      IN  Max(0, Min(10, s5))

\* ParseLine with a non-heading line replacing the open section's content.
ParseLineOverwriting(st, line) ==
    LET line_stripped == Strip(line)
        flushed == IF Strip(st.current.content) # <<>>
                   THEN Append(st.sections, st.current)
                   ELSE st.sections
    IN  IF StartsWith(line_stripped, <<"#", " ">>)
           /\ ~StartsWith(line_stripped, <<"#", "#", " ">>)
        THEN [sections |-> flushed,
              current |-> [type |-> "title",
                           content |-> DropFirst(line_stripped, 2) \o <<NL>>]]
        ELSE IF StartsWith(line_stripped, <<"#", "#", " ">>)
                /\ ~StartsWith(line_stripped, <<"#", "#", "#", " ">>)
        THEN [sections |-> flushed,
              current |-> [type |-> "section",
                           content |-> DropFirst(line_stripped, 3) \o <<NL>>]]
        ELSE IF StartsWith(line_stripped, <<"#", "#", "#", " ">>)
        THEN [sections |-> flushed,
              current |-> [type |-> "subsection",
                           content |-> DropFirst(line_stripped, 4) \o <<NL>>]]
        ELSE [sections |-> st.sections,
              current |-> [type |-> st.current.type,
                           content |-> line \o <<NL>>]]

\* ParseLine with a '### ' heading opening a section of type section.
ParseLineSubsectionAsSection(st, line) ==
    LET line_stripped == Strip(line)
        flushed == IF Strip(st.current.content) # <<>>
                   THEN Append(st.sections, st.current)
                   ELSE st.sections
    IN  IF StartsWith(line_stripped, <<"#", " ">>)
           /\ ~StartsWith(line_stripped, <<"#", "#", " ">>)
        THEN [sections |-> flushed,
              current |-> [type |-> "title",
                           content |-> DropFirst(line_stripped, 2) \o <<NL>>]]
        ELSE IF StartsWith(line_stripped, <<"#", "#", " ">>)
                /\ ~StartsWith(line_stripped, <<"#", "#", "#", " ">>)
        THEN [sections |-> flushed,
              current |-> [type |-> "section",
                           content |-> DropFirst(line_stripped, 3) \o <<NL>>]]
        ELSE IF StartsWith(line_stripped, <<"#", "#", "#", " ">>)
        THEN [sections |-> flushed,
              current |-> [type |-> "section",
                           content |-> DropFirst(line_stripped, 4) \o <<NL>>]]
        ELSE [sections |-> st.sections,
              current |-> [type |-> st.current.type,
                           content |-> st.current.content \o line \o <<NL>>]]

\* One step of the line loop of parse_sections: st = [sections, current].
ParseLine(st, line) ==
    LET line_stripped == Strip(line)
        flushed == IF Strip(st.current.content) # <<>>
                   THEN Append(st.sections, st.current)
                   ELSE st.sections
    IN  IF StartsWith(line_stripped, <<"#", " ">>)
           /\ ~StartsWith(line_stripped, <<"#", "#", " ">>)
        THEN [sections |-> flushed,
              current |-> [type |-> "title",
                           content |-> DropFirst(line_stripped, 2) \o <<NL>>]]
        ELSE IF StartsWith(line_stripped, <<"#", "#", " ">>)
                /\ ~StartsWith(line_stripped, <<"#", "#", "#", " ">>)
        THEN [sections |-> flushed,
              current |-> [type |-> "section",
                           content |-> DropFirst(line_stripped, 3) \o <<NL>>]]
        ELSE IF StartsWith(line_stripped, <<"#", "#", "#", " ">>)
        THEN [sections |-> flushed,
              current |-> [type |-> "subsection",
                           content |-> DropFirst(line_stripped, 4) \o <<NL>>]]
        ELSE [sections |-> st.sections,
              current |-> [type |-> st.current.type,
                           content |-> st.current.content \o line \o <<NL>>]]

RECURSIVE ParseLines(_, _)
ParseLines(st, lines) ==
    IF lines = <<>> THEN st ELSE ParseLines(ParseLine(st, Head(lines)), Tail(lines))

\* parse_sections without the fallback of line 302.
parse_sections_without_fallback(text) ==
    LET st == ParseLines([sections |-> <<>>,
                          current |-> [type |-> "body", content |-> <<>>]],
                         Split(text, NL))
    IN  IF Strip(st.current.content) # <<>>
        THEN Append(st.sections, st.current)
        ELSE st.sections

\* DocumentProcessor.parse_sections on extracted_data["text"].
parse_sections(text) ==
    LET st == ParseLines([sections |-> <<>>,
                          current |-> [type |-> "body", content |-> <<>>]],
                         Split(text, NL))
        sections == IF Strip(st.current.content) # <<>>
                    THEN Append(st.sections, st.current)
                    ELSE st.sections
    IN  IF sections # <<>> THEN sections
        ELSE <<[type |-> "body", content |-> text]>>

\* ------------------------------------------------------------ persistence
VARIABLES
    documents,        \* table documents: a set of rows
    sections,         \* table sections
    processing_jobs,  \* table processing_jobs
    uploads,          \* upload directory: per document, its file's kind or "absent"
    processed,        \* processed directory: per document, <<>> or <<data>>
    created,          \* document IDs already issued (uuid4 values are not reused)
    run,              \* per invocation of process_document: the coroutine's state
    faults,           \* persistence / storage faults injected so far
    deleted,          \* document IDs for which delete_document returned 200
    call,             \* the last call of a pure function: its argument and
                      \* result, the argument afterwards and the result of
                      \* calling it once more
    response,         \* the outcome of the last request handled by a route
    background_tasks, \* the tasks added with BackgroundTasks.add_task
    summarizer        \* the shared DocumentSummarizer and the threads calling it

pipeline ==
    <<documents, sections, processing_jobs, uploads, processed, created, run,
      faults, deleted>>

\* What the routes and the summarizer add to the state of the pipeline.
service == <<response, background_tasks, summarizer>>

vars == <<pipeline, call, service>>

\* A nullable column or attribute: NULL or Some(v).
NULL == <<>>
Some(v) == <<v>>
\* A nullable attribute whose value a rollback expired.
ExpiredValue == <<Expired, Expired>>

Exists(d) == \E row \in documents : row.id = d
\* The select without its filter on the ID: some Document row.
RowOfAnyDocument(d) == CHOOSE row \in documents : TRUE
Row(d) == CHOOSE row \in documents : row.id = d

\* The next INTEGER PRIMARY KEY of a table (SQLite rowid: largest + 1).
NextId(table) ==
    IF table = {} THEN 1
    ELSE (CHOOSE i \in {row.id : row \in table} :
              \A row \in table : row.id <= i) + 1

\* The mapped attributes of Document that process_document assigns.
DocAttrs == {"status", "error_message", "extracted_text", "metadata_json"}
\* The mapped attributes of ProcessingJob that are assigned after construction.
JobAttrs == {"status", "error_message", "completed_at", "result_data"}

ExpiredDoc ==
    [status |-> Expired, error_message |-> ExpiredValue,
     extracted_text |-> ExpiredValue, metadata_json |-> ExpiredValue]
ExpiredJob ==
    [status |-> Expired, error_message |-> ExpiredValue,
     completed_at |-> ExpiredValue, result_data |-> ExpiredValue]

NoJob ==
    [state |-> "none", id |-> 0, document_id |-> "", job_type |-> "",
     started_at |-> NULL, cur |-> ExpiredJob, base |-> ExpiredJob]

NoData == [present |-> FALSE, text |-> <<>>, metadata |-> NULL]

NoException == [type |-> "none", detail |-> <<>>]

\* No pure function has been called.
NoCall == [fn |-> "none", arg |-> <<>>, result |-> <<>>, after |-> <<>>, again |-> <<>>]

\* No request has been handled.
NoResponse ==
    [handler |-> "none", doc_id |-> "", request |-> <<>>, outcome |-> "none",
     status_code |-> 0, detail |-> "", body |-> NULL]

\* The threads that call summarize().
MaxCallers == 3
Callers == 1..MaxCallers

\* DocumentSummarizer.__init__, lines 56-58: no tokenizer, no pipeline, the
\* lock free (0), and no thread inside summarize(). loads counts the calls of
\* from_pretrained / pipeline() that returned.
NewSummarizer ==
    [_tokenizer |-> FALSE, _pipeline |-> FALSE, _lock |-> 0,
     tokenizer_loads |-> 0, pipeline_loads |-> 0,
     pc |-> [c \in Callers |-> "idle"]]

\* A coroutine not yet created. job_attempts counts the executions of line 60
\* (the construction of the ProcessingJob), extraction_starts the hand-overs
\* of the extraction to the executor (line 142).
IdleRun ==
    [pc |-> "idle", doc_id |-> "", doc |-> FALSE,
     cur |-> ExpiredDoc, base |-> ExpiredDoc, job |-> NoJob,
     new_sections |-> <<>>, extracted_data |-> NoData, worker |-> "",
     timeout |-> 0, msg |-> <<>>, cause |-> <<>>, exc |-> NoException,
     faulted |-> FALSE, job_attempts |-> 0, extraction_starts |-> 0]

\* ------------------------------------------------------------- exceptions
DbErrorText == "(sqlite3.OperationalError) database is locked"
StaleDataText ==
    "UPDATE statement on table expected to update 1 row(s); 0 were matched."
FileNotFoundText == "[Errno 2] No such file or directory"
DecoderErrorText == "cannot open broken document"
StorageErrorText == "[Errno 28] No space left on device"
NoTextMessage == "No text extracted from document."

\* ProcessingException(detail): detail = f"Processing failed: {detail}".
ProcessingException(detail) ==
    [type |-> "ProcessingException", detail |-> <<"Processing failed: ">> \o detail]

\* str(e) of an HTTPException: f"{status_code}: {detail}".
HttpExceptionStr(exc) == <<"500: ">> \o exc.detail

\* ---------------------------------------------------------- unit of work
\* Session.rollback() after a failed flush or commit: pending inserts are
\* expunged and every loaded attribute is expired.
Rollback(rr) ==
    [rr EXCEPT !.cur = ExpiredDoc, !.base = ExpiredDoc,
               !.new_sections = <<>>,
               !.job = IF @.state = "pending" THEN [@ EXCEPT !.state = "transient"]
                       ELSE IF @.state = "persistent"
                            THEN [@ EXCEPT !.cur = ExpiredJob, !.base = ExpiredJob]
                            ELSE @]

DocDirty(rr) == rr.doc /\ rr.cur # rr.base
JobDirty(rr) == rr.job.state = "persistent" /\ rr.job.cur # rr.job.base

\* An UPDATE that matches no row raises StaleDataError.
Stale(rr) ==
    \/ DocDirty(rr) /\ ~Exists(rr.doc_id)
    \/ JobDirty(rr) /\ ~\E j \in processing_jobs : j.id = rr.job.id

\* The row after UPDATE ... SET <the attributes whose value changed>.
Updated(row, attrs, cur, base) ==
    [a \in DOMAIN row |->
        IF a \in attrs /\ cur[a] # base[a] THEN cur[a] ELSE row[a]]

JobRow(job, id) ==
    [id |-> id, document_id |-> job.document_id, job_type |-> job.job_type,
     started_at |-> job.started_at, status |-> job.cur.status,
     error_message |-> job.cur.error_message,
     completed_at |-> job.cur.completed_at, result_data |-> job.cur.result_data]

\* AsyncSession.commit() that succeeds: the flush of the unit of work of rr.
\* Returns the tables and the session afterwards.
Flush(rr) ==
    LET docs == IF DocDirty(rr)
                THEN (documents \ {Row(rr.doc_id)})
                       \cup {Updated(Row(rr.doc_id), DocAttrs, rr.cur, rr.base)}
                ELSE documents
        jid == IF rr.job.state = "pending" THEN NextId(processing_jobs) ELSE rr.job.id
        jobs == IF rr.job.state = "pending"
                THEN processing_jobs \cup {JobRow(rr.job, jid)}
                ELSE IF JobDirty(rr)
                THEN LET old == CHOOSE j \in processing_jobs : j.id = rr.job.id
                     IN  (processing_jobs \ {old})
                           \cup {Updated(old, JobAttrs, rr.job.cur, rr.job.base)}
                ELSE processing_jobs
        first == NextId(sections)
        secs == sections \cup
                { [id |-> first + i - 1,
                   document_id |-> rr.new_sections[i].document_id,
                   section_type |-> rr.new_sections[i].section_type,
                   content |-> rr.new_sections[i].content,
                   order |-> rr.new_sections[i].order]
                  : i \in 1..Len(rr.new_sections) }
    IN  [documents |-> docs, processing_jobs |-> jobs, sections |-> secs,
         run |-> [rr EXCEPT !.base = rr.cur,
                            !.new_sections = <<>>,
                            !.job = IF @.state \in {"pending", "persistent"}
                                    THEN [@ EXCEPT !.state = "persistent",
                                                   !.id = jid, !.base = rr.job.cur]
                                    ELSE @]]

\* --------------------------------------------------------------- pipeline
\* What the worker returns for a readable PDF with text.
ExtractedText == <<"#", " ", "A", NL, NL, "a", "b", NL, NL, "#", "#", " ", "c">>

Metadata(kind) ==
    [pages |-> 2, file_size |-> FileSize(kind), extractor |-> "pymupdf",
     format |-> "markdown", has_images |-> FALSE, has_tables |-> FALSE,
     quality_score |-> NULL]

\* _mark_failed with the assignment of doc.error_message left out.
_mark_failed_without_message(rr, message) ==
    [rr EXCEPT
        !.cur = IF rr.doc
                THEN [@ EXCEPT !.status = ProcessingStatus.FAILED]
                ELSE @,
        !.job = IF rr.job.state # "none"
                THEN [@ EXCEPT !.cur = [@ EXCEPT !.status = ProcessingStatus.FAILED,
                                                 !.error_message = Some(message),
                                                 !.completed_at = Some("now")]]
                ELSE @]

\* DocumentProcessor._mark_failed up to its commit: the assignments.
_mark_failed(rr, message) ==
    [rr EXCEPT
        !.cur = IF rr.doc
                THEN [@ EXCEPT !.status = ProcessingStatus.FAILED,
                               !.error_message = Some(message)]
                ELSE @,
        !.job = IF rr.job.state # "none"
                THEN [@ EXCEPT !.cur = [@ EXCEPT !.status = ProcessingStatus.FAILED,
                                                 !.error_message = Some(message),
                                                 !.completed_at = Some("now")]]
                ELSE @]

\* The two except clauses of process_document, up to the await in _mark_failed.
\* etype is the exception's class, text its str().
Except(rr, etype, text) ==
    LET msg == IF etype = "TimeoutError"
               THEN <<"Processing timed out after ", ToString(rr.timeout),
                      "s for document ", rr.doc_id>>
               ELSE <<"Processing failed for ", rr.doc_id, ": ">> \o text
    IN  [_mark_failed(rr, msg) EXCEPT !.pc = "commit_failed", !.msg = msg,
                                      !.cause = text]

\* The outcome of awaiting db.commit(): "ok", or the exception it raises.
CommitOutcome(rr, ok) ==
    IF ~ok THEN "OperationalError"
    ELSE IF Stale(rr) THEN "StaleDataError"
    ELSE "ok"

CommitErrorText(outcome) ==
    IF outcome = "StaleDataError" THEN <<StaleDataText>> ELSE <<DbErrorText>>

Tables ==
    [documents |-> documents, processing_jobs |-> processing_jobs,
     sections |-> sections]

\* AfterSelect with the assignment doc.status = PROCESSING left out.
AfterSelectWithoutProcessing(rr, ok) ==
    IF ~ok THEN Except(rr, "OperationalError", <<DbErrorText>>)
    ELSE IF ~Exists(rr.doc_id) THEN [rr EXCEPT !.pc = "returned"]
    ELSE LET row == Row(rr.doc_id)
             loaded == [a \in DocAttrs |-> row[a]]
         IN  [rr EXCEPT !.doc = TRUE, !.base = loaded, !.cur = loaded,
                        !.pc = "commit_processing"]

\* AfterSelect with a missing Document treated as an error.
AfterSelectRaisingWhenAbsent(rr, ok) ==
    IF ~ok THEN Except(rr, "OperationalError", <<DbErrorText>>)
    ELSE IF ~Exists(rr.doc_id)
    THEN Except(rr, "DocumentNotFoundException", <<"Document not found">>)
    ELSE LET row == Row(rr.doc_id)
             loaded == [a \in DocAttrs |-> row[a]]
         IN  [rr EXCEPT !.doc = TRUE, !.base = loaded,
                        !.cur = [loaded EXCEPT !.status = ProcessingStatus.PROCESSING],
                        !.pc = "commit_processing"]

\* Lines 48-57: the select resolves; the status is set to PROCESSING.
AfterSelect(rr, ok) ==
    IF ~ok THEN Except(rr, "OperationalError", <<DbErrorText>>)
    ELSE IF ~Exists(rr.doc_id) THEN [rr EXCEPT !.pc = "returned"]
    ELSE LET row == Row(rr.doc_id)
             loaded == [a \in DocAttrs |-> row[a]]
         IN  [rr EXCEPT !.doc = TRUE, !.base = loaded,
                        !.cur = [loaded EXCEPT !.status = ProcessingStatus.PROCESSING],
                        !.pc = "commit_processing"]

\* Lines 59-67: the ProcessingJob is constructed and added to the session.
CreateJob(rr) ==
    IF ~HasMember(ProcessingStatus, "RUNNING")
    THEN Except([rr EXCEPT !.job_attempts = @ + 1],
                "AttributeError", <<AttributeErrorText>>)
    ELSE [rr EXCEPT
             !.job_attempts = @ + 1,
             !.job = [state |-> "pending", id |-> 0, document_id |-> rr.doc_id,
                      job_type |-> JobType.EXTRACTION, started_at |-> Some("now"),
                      cur |-> [status |-> ProcessingStatus.RUNNING,
                               error_message |-> NULL, completed_at |-> NULL,
                               result_data |-> NULL],
                      base |-> ExpiredJob],
             !.pc = "commit_job"]

\* Lines 69-79 and 135-147: the timeout is computed and extract_text runs up
\* to the hand-over to the executor.
StartExtraction(rr) ==
    LET kind == uploads[rr.doc_id]
    IN  IF kind = "absent"
        THEN Except(rr, "FileNotFoundError", <<FileNotFoundText>>)
        ELSE LET r1 == [rr EXCEPT !.timeout = Timeout(FileSize(kind))]
             IN  IF kind = "not_pdf"
                 THEN Except(r1, "ProcessingException",
                             HttpExceptionStr(ProcessingException(
                                 <<"Unsupported file type: ", ".txt">>)))
                 ELSE [r1 EXCEPT !.worker = kind, !.pc = "extract",
                                 !.extraction_starts = @ + 1]

\* Lines 76-107: wait_for resolves; text, metadata and sections are put into
\* the session and the artifact write is started.
AfterExtraction(rr) ==
    CASE rr.worker = "corrupt" -> Except(rr, "FileDataError", <<DecoderErrorText>>)
      [] rr.worker = "slow"    -> Except(rr, "TimeoutError", <<>>)
      [] rr.worker = "empty"   ->
            Except(rr, "ProcessingException",
                   HttpExceptionStr(ProcessingException(<<NoTextMessage>>)))
      [] OTHER ->
            LET text == ExtractedText
                quality_score == _calculate_quality(text)
                metadata == [Metadata(rr.worker) EXCEPT
                                !.quality_score = Some(quality_score)]
                parsed == parse_sections(text)
            IN  [rr EXCEPT
                    !.extracted_data = [present |-> TRUE, text |-> text,
                                        metadata |-> Some(metadata)],
                    !.cur = [@ EXCEPT !.extracted_text = Some(text),
                                      !.metadata_json = Some(metadata)],
                    !.new_sections =
                        [i \in 1..Len(parsed) |->
                            [document_id |-> rr.doc_id,
                             section_type |-> parsed[i].type,
                             content |-> parsed[i].content,
                             order |-> i - 1]],
                    !.pc = "save"]

\* Lines 109-115: the success marks, up to the final commit.
MarkSuccess(rr) ==
    [rr EXCEPT
        !.cur = [@ EXCEPT !.status = ProcessingStatus.COMPLETED],
        !.job = [@ EXCEPT !.cur =
                    [@ EXCEPT !.status = ProcessingStatus.COMPLETED,
                              !.completed_at = Some("now"),
                              !.result_data =
                                  Some(<<"Extracted ",
                                         ToString(Len(rr.extracted_data.text)),
                                         " characters (quality: ",
                                         ToString(rr.extracted_data.metadata[1].quality_score[1]),
                                         ")">>)]],
        !.pc = "commit_completed"]

\* One resumption of the try block of process_document: the pending await
\* resolves (ok) or raises (~ok), and the coroutine runs to its next await.
\* The result is the session and the tables and processed directory after it.
TryStep(rr, ok) ==
    LET outcome == CommitOutcome(rr, ok)
        flushed == Flush(rr)
        failed == [run |-> Except(Rollback(rr), outcome, CommitErrorText(outcome)),
                   tables |-> Tables, processed |-> processed]
    IN  CASE rr.pc = "select" ->
                [run |-> AfterSelect(rr, ok), tables |-> Tables,
                 processed |-> processed]
          [] rr.pc = "commit_processing" ->
                IF outcome # "ok" THEN failed
                ELSE [run |-> CreateJob(flushed.run),
                      tables |-> [documents |-> flushed.documents,
                                  processing_jobs |-> flushed.processing_jobs,
                                  sections |-> flushed.sections],
                      processed |-> processed]
          [] rr.pc = "commit_job" ->
                IF outcome # "ok" THEN failed
                ELSE [run |-> StartExtraction(flushed.run),
                      tables |-> [documents |-> flushed.documents,
                                  processing_jobs |-> flushed.processing_jobs,
                                  sections |-> flushed.sections],
                      processed |-> processed]
          [] rr.pc = "extract" ->
                [run |-> AfterExtraction(rr), tables |-> Tables,
                 processed |-> processed]
          [] rr.pc = "save" ->
                IF ~ok
                THEN [run |-> Except(rr, "OSError", <<StorageErrorText>>),
                      tables |-> Tables, processed |-> processed]
                ELSE [run |-> MarkSuccess(rr), tables |-> Tables,
                      processed |-> [processed EXCEPT
                                        ![rr.doc_id] = Some(rr.extracted_data)]]
          [] OTHER ->  \* "commit_completed"
                IF outcome # "ok" THEN failed
                ELSE [run |-> [flushed.run EXCEPT !.pc = "returned"],
                      tables |-> [documents |-> flushed.documents,
                                  processing_jobs |-> flushed.processing_jobs,
                                  sections |-> flushed.sections],
                      processed |-> processed]

\* TryPositions without the await of the PROCESSING commit: a coroutine
\* waiting there is never resumed.
TryPositionsWithoutProcessingCommit ==
    {"select", "commit_job", "extract", "save", "commit_completed"}

TryPositions ==
    {"select", "commit_processing", "commit_job", "extract", "save",
     "commit_completed"}

\* --------------------------------------------------------------- actions
Init ==
    /\ documents = {}
    /\ sections = {}
    /\ processing_jobs = {}
    /\ uploads = [d \in DocIds |-> "absent"]
    /\ processed = [d \in DocIds |-> NULL]
    /\ created = {}
    /\ run = [r \in RunIds |-> IdleRun]
    /\ faults = 0
    /\ deleted = {}
    /\ call = NoCall
    /\ response = NoResponse
    /\ background_tasks = {}
    /\ summarizer = NewSummarizer

\* A Document row in status UPLOADED, with its file in the upload directory:
\* what process_document is given.
PersistDocument(d) ==
    /\ d \notin created
    /\ \E kind \in FileKinds :
          uploads' = [uploads EXCEPT ![d] = kind]
    /\ documents' = documents \cup
          {[id |-> d, status |-> ProcessingStatus.UPLOADED,
            error_message |-> NULL, extracted_text |-> NULL,
            metadata_json |-> NULL]}
    /\ created' = created \cup {d}
    /\ UNCHANGED <<sections, processing_jobs, processed, run, faults, deleted,
                   call, service>>

\* process_document(doc_id, file_path) is called: lines 39-50, up to the
\* await of the select.
process_document(d) ==
    /\ \E r \in RunIds :
          /\ run[r].pc = "idle"
          /\ \A q \in RunIds : q < r => run[q].pc # "idle"
          /\ run' = [run EXCEPT ![r] = [IdleRun EXCEPT !.pc = "select", !.doc_id = d]]
    /\ UNCHANGED <<documents, sections, processing_jobs, uploads, processed,
                   created, faults, deleted, call, service>>

\* The event loop resumes the coroutine inside its try block.
Resume(r) ==
    /\ run[r].pc \in TryPositions
    /\ \E ok \in BOOLEAN :
          /\ ~ok => faults < MaxFaults /\ run[r].pc # "extract"
          /\ LET res == TryStep(run[r], ok)
             IN  /\ run' = [run EXCEPT ![r] = [res.run EXCEPT !.faulted = @ \/ ~ok]]
                 /\ documents' = res.tables.documents
                 /\ processing_jobs' = res.tables.processing_jobs
                 /\ sections' = res.tables.sections
                 /\ processed' = res.processed
          /\ faults' = IF ok THEN faults ELSE faults + 1
    /\ UNCHANGED <<uploads, created, deleted, call, service>>

\* The except clause starting the pipeline again in place of raising.
RetryInsteadOfRaise(rr, exc) ==
    IF rr.job_attempts < 2 THEN [rr EXCEPT !.pc = "select"]
    ELSE [rr EXCEPT !.pc = "raised", !.exc = exc]

\* Lines 122 / 128, or an exception leaving _mark_failed: the coroutine ends
\* by raising exc.
Raise(rr, exc) == [rr EXCEPT !.pc = "raised", !.exc = exc]

\* The commit in _mark_failed resolves (line 335); then lines 122 / 128 raise
\* ProcessingException(msg), or the commit's own exception leaves the handler.
ResumeMarkFailed(r) ==
    /\ run[r].pc = "commit_failed"
    /\ \E ok \in BOOLEAN :
          /\ ~ok => faults < MaxFaults
          /\ LET rr == run[r]
                 outcome == CommitOutcome(rr, ok)
                 flushed == Flush(rr)
             IN  IF outcome = "ok"
                 THEN /\ run' = [run EXCEPT ![r] =
                                   Raise(flushed.run, ProcessingException(rr.msg))]
                      /\ documents' = flushed.documents
                      /\ processing_jobs' = flushed.processing_jobs
                      /\ sections' = flushed.sections
                 ELSE /\ run' = [run EXCEPT ![r] =
                                   [Raise(Rollback(rr),
                                          [type |-> outcome,
                                           detail |-> CommitErrorText(outcome)])
                                    EXCEPT !.faulted = @ \/ ~ok]]
                      /\ UNCHANGED <<documents, processing_jobs, sections>>
          /\ faults' = IF ok THEN faults ELSE faults + 1
    /\ UNCHANGED <<uploads, processed, created, deleted, call, service>>

\* db.delete(doc) that deletes the sections and jobs and leaves the Document
\* row in place.
DeleteCascadeKeepingDocument(d) ==
    [documents |-> documents,
     sections |-> {s \in sections : s.document_id # d},
     processing_jobs |-> {j \in processing_jobs : j.document_id # d}]

\* Lines 291-292: db.delete(doc) and the commit. The relationships sections
\* and processing_jobs of Document have cascade "all, delete-orphan", so the
\* unit of work deletes the rows of both that refer to the Document.
DeleteCascade(d) ==
    [documents |-> documents \ {Row(d)},
     sections |-> {s \in sections : s.document_id # d},
     processing_jobs |-> {j \in processing_jobs : j.document_id # d}]

\* delete_document: the stored file and the processed JSON are unlinked, then
\* the row is deleted with its sections and jobs (cascade) and committed.
\* For an ID with no Document row the handler raises DocumentNotFoundException
\* before it changes anything.
delete_document(d) ==
    /\ Exists(d)
    /\ uploads' = [uploads EXCEPT ![d] = "absent"]
    /\ processed' = [processed EXCEPT ![d] = NULL]
    /\ \E ok \in BOOLEAN :
          /\ ~ok => faults < MaxFaults
          /\ faults' = IF ok THEN faults ELSE faults + 1
          /\ IF ok
             THEN /\ documents' = DeleteCascade(d).documents
                  /\ sections' = DeleteCascade(d).sections
                  /\ processing_jobs' = DeleteCascade(d).processing_jobs
                  /\ deleted' = deleted \cup {d}
             ELSE UNCHANGED <<documents, sections, processing_jobs, deleted>>
    /\ UNCHANGED <<created, run, call, service>>

Next ==
    \/ \E d \in DocIds : PersistDocument(d)
    \/ \E d \in DocIds : process_document(d)
    \/ \E r \in RunIds : Resume(r)
    \/ \E r \in RunIds : ResumeMarkFailed(r)
    \/ \E d \in DocIds : delete_document(d)

Spec == Init /\ [][Next]_vars

\* Every await of a started coroutine resolves or raises: the session calls
\* return or fail, and asyncio.wait_for ends the wait for the extraction at
\* the deadline. So the event loop eventually resumes every waiting coroutine.
FairSpec ==
    /\ Spec
    /\ \A r \in RunIds : WF_vars(Resume(r)) /\ WF_vars(ResumeMarkFailed(r))

\* ------------------------------------------------------ the upload route
\* settings.MAX_FILE_SIZE and settings.ALLOWED_EXTENSIONS.
MAX_FILE_SIZE == 50 * MB
ALLOWED_EXTENSIONS == {".pdf"}

\* Path(file.filename).suffix.lower() of the uploaded file's name.
UploadSuffixes == {"", ".pdf", ".txt"}
\* The sizes of the uploaded files, in bytes.
UploadSizes == {0, MB, MAX_FILE_SIZE, MAX_FILE_SIZE + 1}

\* The number of parameters of DocumentProcessor.process_document besides
\* self: doc_id and file_path.
ProcessDocumentParameters == 2
\* The arguments upload_document gives to add_task after the function:
\* doc_id, str(file_path) and db.
UploadTaskArguments == <<"doc_id", "file_path", "db">>

\* db.commit() and db.refresh() of upload_document with await.
UploadCommitAwaited == TRUE

\* Whether upload_document awaits db.commit() and db.refresh(): db is the
\* AsyncSession of dependencies.get_db, whose commit and refresh are coroutine
\* functions, and lines 59-60 call them without await, so the coroutines are
\* created and never run.
UploadCommitIsAwaited == FALSE

\* validate_file_extension and validate_file_size: the exception raised, or
\* "ok".
Validate(suffix, size) ==
    IF suffix = "" THEN "ValidationException"
    ELSE IF suffix \notin ALLOWED_EXTENSIONS THEN "UnsupportedFileTypeException"
    ELSE IF size = 0 THEN "ValidationException"
    ELSE IF size > MAX_FILE_SIZE THEN "FileSizeExceededException"
    ELSE "ok"

StatusCodeOf(outcome) ==
    CASE outcome = "returned" -> 200
      [] outcome = "ValidationException" -> 400
      [] outcome = "FileSizeExceededException" -> 413
      [] outcome = "UnsupportedFileTypeException" -> 415
      [] OTHER -> 500

UploadResponse(d, suffix, size, outcome) ==
    [handler |-> "upload_document", doc_id |-> d, request |-> <<suffix, size>>,
     outcome |-> outcome, status_code |-> StatusCodeOf(outcome), detail |-> "",
     body |-> NULL]

\* upload_document for a file with the given suffix and size; d is the uuid4
\* that generate_unique_filename draws. The handler awaits nothing, so it
\* runs in one step; the session of get_db is closed when the request ends,
\* which discards what was added and not flushed.
upload_document(d, suffix, size) ==
    /\ d \notin created
    /\ UNCHANGED <<sections, processing_jobs, processed, run, deleted, call,
                   summarizer>>
    /\ IF Validate(suffix, size) # "ok"
       THEN /\ response' = UploadResponse("", suffix, size, Validate(suffix, size))
            /\ UNCHANGED <<documents, uploads, created, faults, background_tasks>>
       ELSE /\ created' = created \cup {d}
            /\ \E saved \in BOOLEAN, committed \in BOOLEAN :
                  /\ ~saved => faults < MaxFaults /\ committed
                  /\ ~committed => faults < MaxFaults /\ UploadCommitIsAwaited
                  /\ faults' = IF saved /\ committed THEN faults ELSE faults + 1
                  /\ IF ~saved
                     THEN \* save_upload_file raises; the partial file is removed
                          /\ response' = UploadResponse(d, suffix, size,
                                                        "FileOperationException")
                          /\ UNCHANGED <<documents, uploads, background_tasks>>
                     ELSE IF ~committed
                     THEN \* lines 61-64: the file is deleted again
                          /\ response' = UploadResponse(d, suffix, size,
                                                        "DatabaseException")
                          /\ UNCHANGED <<documents, uploads, background_tasks>>
                     ELSE /\ uploads' = [uploads EXCEPT ![d] = "text"]
                          /\ documents' =
                                IF UploadCommitIsAwaited
                                THEN documents \cup
                                       {[id |-> d,
                                         status |-> ProcessingStatus.UPLOADED,
                                         error_message |-> NULL,
                                         extracted_text |-> NULL,
                                         metadata_json |-> NULL]}
                                ELSE documents
                          /\ background_tasks' = background_tasks \cup
                                {[func |-> "process_document", doc_id |-> d,
                                  args |-> UploadTaskArguments]}
                          /\ response' = UploadResponse(d, suffix, size, "returned")

\* The background task runs after the response: process_document is called
\* with the task's arguments. A call with more arguments than parameters
\* raises TypeError before the body starts.
RunBackgroundTask(task) ==
    /\ task \in background_tasks
    /\ background_tasks' = background_tasks \ {task}
    /\ IF Len(task.args) = ProcessDocumentParameters
       THEN \E r \in RunIds :
               /\ run[r].pc = "idle"
               /\ \A q \in RunIds : q < r => run[q].pc # "idle"
               /\ run' = [run EXCEPT ![r] =
                            [IdleRun EXCEPT !.pc = "select", !.doc_id = task.doc_id]]
       ELSE UNCHANGED run
    /\ UNCHANGED <<documents, sections, processing_jobs, uploads, processed,
                   created, faults, deleted, call, response, summarizer>>

NextUpload ==
    \/ \E d \in DocIds, suffix \in UploadSuffixes, size \in UploadSizes :
          upload_document(d, suffix, size)
    \/ \E task \in background_tasks : RunBackgroundTask(task)

SpecUpload == Init /\ [][NextUpload]_vars

\* ------------------------------------------------------- the read routes
\* api/routes/content.py. Each handler selects the Document, answers 404 when
\* there is none, and (all but get_document_sections) 400 when its status is
\* not COMPLETED.
SectionsOf(d) == {s \in sections : s.document_id = d}

ReadResponse(handler, d, outcome, status_code, detail, body) ==
    [handler |-> handler, doc_id |-> d, request |-> <<>>, outcome |-> outcome,
     status_code |-> status_code, detail |-> detail, body |-> body]

\* raise DocumentNotFoundException(doc_id)
DocumentNotFound(handler, d) ==
    ReadResponse(handler, d, "DocumentNotFoundException", 404, "", NULL)

\* The status test of a handler that never refuses.
NotCompletedNever(row) == FALSE
\* if doc.status != ProcessingStatus.COMPLETED.value
NotCompleted(row) == row.status # ProcessingStatus.COMPLETED

\* raise HTTPException(400, f"Document not ready. Current status: {doc.status}");
\* detail holds the status that the message ends with.
DocumentNotReady(handler, d) ==
    ReadResponse(handler, d, "Document not ready", 400, Row(d).status, NULL)

\* A call of a method that DocumentProcessor does not define
\* (load_markdown_file, summarize_document): AttributeError, answered 500.
MissingProcessorMethod(handler, d) ==
    ReadResponse(handler, d, "AttributeError", 500, "", NULL)

\* doc.extracted_text or ""
TextOrEmpty(row) ==
    IF row.extracted_text = NULL THEN <<>> ELSE row.extracted_text[1]

Respond(resp) ==
    /\ response' = resp
    /\ UNCHANGED <<pipeline, call, background_tasks, summarizer>>

get_document_content(d) ==
    Respond(IF ~Exists(d) THEN DocumentNotFound("get_document_content", d)
            ELSE IF NotCompleted(Row(d))
            THEN DocumentNotReady("get_document_content", d)
            ELSE ReadResponse("get_document_content", d, "returned", 200, "",
                     Some([text |-> TextOrEmpty(Row(d)),
                           sections |-> SectionsOf(d)])))

get_document_sections(d) ==
    Respond(IF ~Exists(d) THEN DocumentNotFound("get_document_sections", d)
            ELSE ReadResponse("get_document_sections", d, "returned", 200, "",
                     Some([sections |-> SectionsOf(d)])))

get_document_markdown(d) ==
    Respond(IF ~Exists(d) THEN DocumentNotFound("get_document_markdown", d)
            ELSE IF NotCompleted(Row(d))
            THEN DocumentNotReady("get_document_markdown", d)
            ELSE MissingProcessorMethod("get_document_markdown", d))

get_document_text(d) ==
    Respond(IF ~Exists(d) THEN DocumentNotFound("get_document_text", d)
            ELSE IF NotCompleted(Row(d))
            THEN DocumentNotReady("get_document_text", d)
            ELSE MissingProcessorMethod("get_document_text", d))

get_document_summary(d) ==
    Respond(IF ~Exists(d) THEN DocumentNotFound("get_document_summary", d)
            ELSE IF NotCompleted(Row(d))
            THEN DocumentNotReady("get_document_summary", d)
            ELSE MissingProcessorMethod("get_document_summary", d))

\* The pipeline with a reader polling the documents.
NextReads ==
    \/ Next
    \/ \E d \in DocIds : get_document_content(d)
    \/ \E d \in DocIds : get_document_sections(d)
    \/ \E d \in DocIds : get_document_markdown(d)
    \/ \E d \in DocIds : get_document_text(d)
    \/ \E d \in DocIds : get_document_summary(d)

SpecReads == Init /\ [][NextReads]_vars

\* ------------------------------------------------------- the summarizer
\* core/summarizer.py: the callers of summarize() on the shared
\* DocumentSummarizer are threads; summarizer.pc[c] is the position of
\* caller c, summarizer._lock the holder of self._lock (0: free).
Goto(s, c, pc) == [s EXCEPT !.pc[c] = pc]

\* Leaving the with block without releasing the lock.
ReleaseKeepingLock(s) == s
\* Leaving "with self._lock:", by falling through or by an exception.
Release(s) == [s EXCEPT !._lock = 0]

\* The positions at which a caller waits for self._lock.
AcquireSteps ==
    {"tokenizer_acquire", "pipeline_acquire", "nested_tokenizer_acquire"}
\* The positions at which from_pretrained or pipeline() runs and may raise.
LoadSteps ==
    {"tokenizer_load", "model_load", "nested_tokenizer_load",
     "pipeline_construct"}
\* The positions at which the caller holds self._lock.
LockedSteps ==
    {"tokenizer_recheck", "tokenizer_load", "pipeline_recheck", "model_load",
     "nested_tokenizer_check", "nested_tokenizer_acquire",
     "nested_tokenizer_load", "pipeline_construct"}
\* summarize() has ended: with the pipeline obtained, or by raising.
EndSteps == {"done", "ValueError", "LoadError"}

\* summarize(text) called by thread c; empty: text.strip() is empty
\* (ValueError, lines 67-68). Otherwise line 70 calls _ensure_tokenizer.
summarize(c, empty) ==
    /\ summarizer.pc[c] = "idle"
    /\ summarizer' = Goto(summarizer, c,
                          IF empty THEN "ValueError" ELSE "tokenizer_check")
    /\ UNCHANGED <<pipeline, call, response, background_tasks>>

\* One step of caller c through _ensure_tokenizer (lines 103-112), the first
\* _run_pipeline and its _ensure_pipeline (lines 114-127); ok: the load at
\* this position returns (otherwise it raises, and the with block releases
\* the lock). Later calls of _run_pipeline find self._pipeline set.
EnsureStep(s, c, ok) ==
    LET pc == s.pc[c]
        loaded == [s EXCEPT !._tokenizer = TRUE, !.tokenizer_loads = @ + 1]
    IN  CASE pc = "tokenizer_check" ->
               Goto(s, c, IF s._tokenizer THEN "pipeline_check"
                          ELSE "tokenizer_acquire")
          [] pc = "tokenizer_acquire" ->
               [Goto(s, c, "tokenizer_recheck") EXCEPT !._lock = c]
          [] pc = "tokenizer_recheck" ->
               IF s._tokenizer THEN Goto(Release(s), c, "pipeline_check")
               ELSE Goto(s, c, "tokenizer_load")
          [] pc = "tokenizer_load" ->
               IF ok THEN Goto(Release(loaded), c, "pipeline_check")
               ELSE Goto(Release(s), c, "LoadError")
          [] pc = "pipeline_check" ->
               Goto(s, c, IF s._pipeline THEN "done" ELSE "pipeline_acquire")
          [] pc = "pipeline_acquire" ->
               [Goto(s, c, "pipeline_recheck") EXCEPT !._lock = c]
          [] pc = "pipeline_recheck" ->
               IF s._pipeline THEN Goto(Release(s), c, "done")
               ELSE Goto(s, c, "model_load")
          [] pc = "model_load" ->
               IF ok THEN Goto(s, c, "nested_tokenizer_check")
               ELSE Goto(Release(s), c, "LoadError")
          [] pc = "nested_tokenizer_check" ->
               \* line 120: _ensure_tokenizer() called with the lock held
               Goto(s, c, IF s._tokenizer THEN "pipeline_construct"
                          ELSE "nested_tokenizer_acquire")
          [] pc = "nested_tokenizer_acquire" ->
               [Goto(s, c, "nested_tokenizer_load") EXCEPT !._lock = c]
          [] pc = "nested_tokenizer_load" ->
               IF ok THEN Goto(Release(loaded), c, "pipeline_construct")
               ELSE Goto(Release(s), c, "LoadError")
          [] pc = "pipeline_construct" ->
               IF ok
               THEN Goto(Release([s EXCEPT !._pipeline = TRUE,
                                           !.pipeline_loads = @ + 1]),
                         c, "done")
               ELSE Goto(Release(s), c, "LoadError")

\* Thread c runs to its next position. Lock.acquire() blocks while the lock
\* is held, by whichever thread (threading.Lock is not reentrant).
SummarizeStep(c) ==
    /\ summarizer.pc[c] \notin EndSteps \cup {"idle"}
    /\ summarizer.pc[c] \in AcquireSteps => summarizer._lock = 0
    /\ \E ok \in BOOLEAN :
          /\ ~ok => summarizer.pc[c] \in LoadSteps /\ faults < MaxFaults
          /\ summarizer' = EnsureStep(summarizer, c, ok)
          /\ faults' = IF ok THEN faults ELSE faults + 1
    /\ UNCHANGED <<documents, sections, processing_jobs, uploads, processed,
                   created, run, deleted, call, response, background_tasks>>

NextSummarizer ==
    \/ \E c \in Callers, empty \in BOOLEAN : summarize(c, empty)
    \/ \E c \in Callers : SummarizeStep(c)

SpecSummarizer == Init /\ [][NextSummarizer]_vars

\* The operating system schedules every runnable thread, and a thread
\* blocked in Lock.acquire() is woken once the lock is free.
FairSpecSummarizer ==
    /\ SpecSummarizer
    /\ \A c \in Callers : WF_vars(SummarizeStep(c))

\* ------------------------------------------------- the pure functions alone
\* Path(file_path).stat().st_size: sizes from 0 to MaxFileMB in steps of 1/8 MB.
FileSizes == {k * (MB \div 8) : k \in 0..(8 * MaxFileMB)}

\* The characters of the texts given to parse_sections.
TextChars == {"#", " ", "a", NL}

\* extracted_data.get("text", ""): every text of at most MaxTextLen characters.
Texts == UNION {[1..n -> TextChars] : n \in 0..MaxTextLen}

\* Lines 71-73 on a file of st_size bytes.
ComputeTimeout ==
    /\ call = NoCall
    /\ \E st_size \in FileSizes :
          call' = [fn |-> "timeout", arg |-> st_size, result |-> Timeout(st_size),
                   after |-> st_size, again |-> Timeout(st_size)]
    /\ UNCHANGED <<pipeline, service>>

\* parse_sections that removes the text from the dict it is given (pop in
\* place of get).
parse_sections_call_popping_text(extracted_data) ==
    [sections |-> parse_sections(extracted_data.text),
     extracted_data |-> [extracted_data EXCEPT !.text = <<>>]]

\* parse_sections on the dict extracted_data: the text is read with
\* extracted_data.get("text", ""), split into new lists, and the dict is left
\* as it was. Returns the list and the dict after the call.
parse_sections_call(extracted_data) ==
    [sections |-> parse_sections(extracted_data.text),
     extracted_data |-> extracted_data]

\* Two calls of parse_sections(extracted_data) on the same dict.
CallParseSections ==
    /\ call = NoCall
    /\ \E text \in Texts :
          LET first == parse_sections_call([text |-> text])
              second == parse_sections_call(first.extracted_data)
          IN  call' = [fn |-> "parse_sections", arg |-> text,
                       result |-> first.sections,
                       after |-> first.extracted_data.text,
                       again |-> second.sections]
    /\ UNCHANGED <<pipeline, service>>

\* u repeated k times.
Repeat(u, k) == [i \in 1..(k * Len(u)) |-> u[((i - 1) % Len(u)) + 1]]

\* Fragments of text: a letter, a one-letter word, a special character, a
\* digit, words of three, ten and eleven letters, a word with a research
\* term, a sentence of five words and a sentence of six words with a
\* research term.
QualityFragments ==
    {<<"a">>, <<"a", " ">>, <<"@">>, <<"1">>,
     <<"a", "b", "c", " ">>,
     <<"a", "b", "c", "d", "e", "f", "g", "h", "i", "j", " ">>,
     <<"a", "b", "c", "d", "e", "f", "g", "h", "i", "j", "k", " ">>,
     <<"w", "e", " ", "s", "a", "w", " ", "t", "h", "e", " ", "n", "e", "w",
       " ", "o", "n", "e", ".", " ">>,
     <<"M", "e", "t", "h", "o", "d", " ">>,
     <<"t", "h", "e", " ", "r", "e", "s", "u", "l", "t", " ", "w", "e", " ",
       "s", "a", "w", " ", "i", "s", " ", "n", "e", "w", ".", " ">>}

QualityCounts == {0, 1, 2, 6, 7, 20, 50, MaxRepeat - 1, MaxRepeat}

\* The texts given to _calculate_quality: one fragment repeated, followed by
\* another fragment repeated.
QualityTexts ==
    {t \in {Repeat(u, k) \o Repeat(v, m) :
                u \in QualityFragments, v \in QualityFragments,
                k \in QualityCounts, m \in QualityCounts} :
        Len(t) <= MaxQualityLen}

\* Two calls of _calculate_quality(text) on the same text.
CallCalculateQuality ==
    /\ call = NoCall
    /\ \E text \in QualityTexts :
          call' = [fn |-> "_calculate_quality", arg |-> text,
                   result |-> _calculate_quality(text),
                   after |-> text, again |-> _calculate_quality(text)]
    /\ UNCHANGED <<pipeline, service>>

\* The first span of a line: its "size" and "flags" entries, each of which
\* may be missing from the dict.
Spans ==
    {<<size, flags>> :
        size \in {NULL} \cup {Some(v) : v \in 0..MaxFontSize},
        flags \in {NULL} \cup {Some(f) : f \in 0..MaxFontFlags}}

\* line["spans"][0].get("size", 11), in tenths of a point.
font_size(span) == IF span[1] = NULL THEN 110 ELSE span[1][1]
\* line["spans"][0].get("flags", 0)
font_flags(span) == IF span[2] = NULL THEN 0 ELSE span[2][1]
\* font_flags & 2 ** 4, as a truth value.
is_bold(span) == (font_flags(span) \div 16) % 2 = 1

\* The header detection with each threshold included (>= in place of >).
HeaderDetectionInclusive(span) ==
    IF font_size(span) >= 160 \/ (font_size(span) >= 140 /\ is_bold(span)) THEN 1
    ELSE IF font_size(span) >= 130 \/ (font_size(span) >= 110 /\ is_bold(span)) THEN 2
    ELSE IF font_size(span) >= 115 THEN 3
    ELSE 0

\* Lines 191-204 of _extract_with_pymupdf: the number of '#' the line is
\* given (1, 2 or 3), or 0 for a plain run.
HeaderDetection(span) ==
    IF font_size(span) > 160 \/ (font_size(span) > 140 /\ is_bold(span)) THEN 1
    ELSE IF font_size(span) > 130 \/ (font_size(span) > 110 /\ is_bold(span)) THEN 2
    ELSE IF font_size(span) > 115 THEN 3
    ELSE 0

\* The header detection on the first span of a line.
CallHeaderDetection ==
    /\ call = NoCall
    /\ \E span \in Spans :
          call' = [fn |-> "header_detection", arg |-> span,
                   result |-> HeaderDetection(span),
                   after |-> span, again |-> HeaderDetection(span)]
    /\ UNCHANGED <<pipeline, service>>

NextFunctions ==
    \/ ComputeTimeout
    \/ CallParseSections
    \/ CallCalculateQuality
    \/ CallHeaderDetection

SpecFunctions == Init /\ [][NextFunctions]_vars

\* ------------------------------------------------------------ properties
Finished(r) == run[r].pc \in {"returned", "raised"}

\* How many times process_document has been called for document d.
Invocations(d) == Cardinality({r \in RunIds : run[r].pc # "idle" /\ run[r].doc_id = d})

\* The persisted job rows written by run r.
JobsOf(r) ==
    {j \in processing_jobs : run[r].job.state = "persistent" /\ j.id = run[r].job.id
                             /\ j.document_id = run[r].doc_id}

RunningJobs(d) ==
    {j \in processing_jobs : j.document_id = d /\ j.status = "running"}

\* C1: whenever process_document raises for a document it loaded (and that
\* still exists), at that moment the persisted Document is FAILED and the
\* persisted ProcessingJob of that run is FAILED.
C1_FailureRecordedOnDocumentAndJob ==
    [][\A r \in RunIds :
          (run[r].pc # "raised" /\ run'[r].pc = "raised" /\ run'[r].doc
             /\ Exists(run[r].doc_id)')
          => /\ Row(run[r].doc_id)'.status = ProcessingStatus.FAILED
             /\ \E j \in JobsOf(r)' : j.status = ProcessingStatus.FAILED]_vars

C3_ErrorMessageIffFailed ==
    \A row \in documents :
        row.error_message # NULL <=> row.status = ProcessingStatus.FAILED

\* C3 amended: a FAILED Document always has an error_message; and a Document
\* for which process_document was invoked at most once has an error_message
\* only if it is FAILED.
C3_ErrorMessageIffFailedSingleRun ==
    \A row \in documents :
        /\ row.status = ProcessingStatus.FAILED => row.error_message # NULL
        /\ Invocations(row.id) <= 1
             => (row.error_message # NULL => row.status = ProcessingStatus.FAILED)

\* C3 witness: a Document processed once is persisted FAILED with its message.
C3_Witness ==
    \E row \in documents :
        /\ Invocations(row.id) = 1
        /\ row.status = ProcessingStatus.FAILED
        /\ row.error_message # NULL

StatusEdges ==
    { <<ProcessingStatus.UPLOADED, ProcessingStatus.PROCESSING>>,
      <<ProcessingStatus.PROCESSING, ProcessingStatus.COMPLETED>>,
      <<ProcessingStatus.PROCESSING, ProcessingStatus.FAILED>> }

TerminalStatuses == {ProcessingStatus.COMPLETED, ProcessingStatus.FAILED}

FaultedFailureCommit(d) ==
    \E r \in RunIds :
        /\ run[r].doc_id = d /\ run[r].pc = "commit_failed" /\ run[r].faulted
        /\ run'[r].pc = "raised"

C7_SuccessfulRunCompletes ==
    \A r \in RunIds :
        (/\ Finished(r) /\ run[r].doc /\ ~run[r].faulted
         /\ Exists(run[r].doc_id) /\ uploads[run[r].doc_id] = "text"
         /\ Invocations(run[r].doc_id) = 1)
        => /\ run[r].pc = "returned"
           /\ Row(run[r].doc_id).status = ProcessingStatus.COMPLETED
           /\ \E j \in JobsOf(r) :
                 /\ j.status = ProcessingStatus.COMPLETED
                 /\ j.completed_at # NULL /\ j.result_data # NULL

\* The positions of a run after the statements that create and commit the job.
AfterJobCreation ==
    {"extract", "save", "commit_completed", "commit_failed", "returned", "raised"}

\* C8: once a run has committed PROCESSING and moved on (no persistence fault,
\* Document not deleted), exactly one ProcessingJob of that run is persisted
\* for the document, of type extraction with a start timestamp, and it is
\* running when extraction starts.
C8_JobPersistedBeforeExtraction ==
    \A r \in RunIds :
        (/\ run[r].pc \in AfterJobCreation /\ run[r].doc /\ ~run[r].faulted
         /\ Exists(run[r].doc_id))
        => /\ Cardinality(JobsOf(r)) = 1
           /\ \A j \in JobsOf(r) :
                 /\ j.job_type = JobType.EXTRACTION /\ j.started_at # NULL
                 /\ run[r].pc = "extract" => j.status = "running"

\* C9: a job row that is completed or failed is never changed again (it only
\* disappears with its Document), and every run that finishes for a Document
\* it loaded has written a job row of its own.
C9_JobsMonotonicNewRowPerRun ==
    [][/\ \A j \in processing_jobs :
             j.status \in {"completed", "failed"}
             => (j \in processing_jobs' \/ ~Exists(j.document_id)')
       /\ \A r \in RunIds :
             (/\ ~Finished(r) /\ Finished(r)' /\ run'[r].doc /\ ~run'[r].faulted
              /\ Exists(run[r].doc_id)')
             => /\ JobsOf(r)' # {}
                /\ \A q \in RunIds \ {r} : JobsOf(q)' \cap JobsOf(r)' = {}]_vars

\* C10: every error that leaves process_document is a ProcessingException
\* whose message contains the message of the original failure.
C10_EveryErrorIsProcessingException ==
    \A r \in RunIds :
        run[r].pc = "raised"
        => /\ run[r].exc.type = "ProcessingException"
           /\ Contains(run[r].exc.detail, run[r].cause)

EndedRunOn(r, kind) ==
    /\ Finished(r) /\ run[r].doc /\ ~run[r].faulted
    /\ Exists(run[r].doc_id) /\ uploads[run[r].doc_id] = kind
    /\ Invocations(run[r].doc_id) = 1

\* Nothing of an extraction is persisted for document d.
NothingExtractedPersisted(d) ==
    /\ Row(d).extracted_text = NULL /\ Row(d).metadata_json = NULL
    /\ \A sec \in sections : sec.document_id # d
    /\ processed[d] = NULL

\* The message of the timeout handler (line 119) for document d.
TimeoutMessage(d) ==
    <<"Processing timed out after ", ToString(Timeout(FileSize(uploads[d]))),
      "s for document ", d>>

\* C11: a run whose extraction outlasts the deadline ends on the failure path:
\* it raises ProcessingException with the timeout message, which names the
\* bound; the Document and the job of the run are FAILED with that message,
\* and no text, metadata, Section or artifact of the extraction is persisted.
C11_TimeoutTakesFailurePath ==
    \A r \in RunIds :
        EndedRunOn(r, "slow")
        => LET d == run[r].doc_id
           IN  /\ run[r].pc = "raised"
               /\ run[r].exc = ProcessingException(TimeoutMessage(d))
               /\ Contains(TimeoutMessage(d), <<ToString(600)>>)
               /\ Row(d).status = ProcessingStatus.FAILED
               /\ Row(d).error_message = Some(TimeoutMessage(d))
               /\ \E j \in JobsOf(r) :
                     /\ j.status = ProcessingStatus.FAILED
                     /\ j.error_message = Some(TimeoutMessage(d))
               /\ NothingExtractedPersisted(d)

\* C13: a run whose extraction returns no text ends as a failure: Document
\* and job FAILED with a message that contains 'No text extracted from
\* document', no Section and no artifact written, Document not COMPLETED.
C13_EmptyTextIsFailure ==
    \A r \in RunIds :
        EndedRunOn(r, "empty")
        => LET d == run[r].doc_id
           IN  /\ run[r].pc = "raised"
               /\ Row(d).status = ProcessingStatus.FAILED
               /\ Row(d).error_message # NULL
               /\ Contains(Row(d).error_message[1], <<NoTextMessage>>)
               /\ \E j \in JobsOf(r) :
                     /\ j.status = ProcessingStatus.FAILED
                     /\ j.error_message = Row(d).error_message
               /\ \A sec \in sections : sec.document_id # d
               /\ processed[d] = NULL

\* C14: a run on a PDF with text, whose steps other than the quality check
\* succeed, ends COMPLETED with the quality score stored in the persisted
\* metadata, also when the score is 0.0 (text shorter than 100 characters).
C14_QualityScoreNeverBlocks ==
    \A r \in RunIds :
        EndedRunOn(r, "text")
        => LET d == run[r].doc_id
           IN  /\ _calculate_quality(ExtractedText) = 0
               /\ Row(d).status = ProcessingStatus.COMPLETED
               /\ Row(d).metadata_json # NULL
               /\ Row(d).metadata_json[1].quality_score
                      = Some(_calculate_quality(ExtractedText))

\* C15: when the select of process_document resolves and finds no Document
\* with the given ID, the call returns normally, raises nothing, has created no
\* job, and the step changes no table, no artifact and no uploaded file.
C15_MissingDocumentIsNoOp ==
    [][\A r \in RunIds :
          (/\ run[r].pc = "select" /\ run'[r].pc # "select"
           /\ ~Exists(run[r].doc_id) /\ ~run'[r].faulted)
          => /\ run'[r].pc = "returned"
             /\ run'[r].exc = NoException
             /\ run'[r].job.state = "none" /\ run'[r].new_sections = <<>>
             /\ documents' = documents /\ sections' = sections
             /\ processing_jobs' = processing_jobs
             /\ processed' = processed /\ uploads' = uploads]_vars

\* C15 witness: a call for an ID with no Document has returned without
\* loading anything, while another Document is persisted.
C15_Witness ==
    \E r \in RunIds :
        /\ run[r].pc = "returned" /\ ~run[r].doc /\ ~run[r].faulted
        /\ ~Exists(run[r].doc_id) /\ documents # {}

\* C16: a run that had loaded its Document and finishes after the row was
\* deleted (no injected persistence fault) returns without raising, and no
\* row of any table belongs to the deleted document afterwards.
C16_DeletedMidRunIsNoOp ==
    [][\A r \in RunIds :
          (/\ ~Finished(r) /\ Finished(r)' /\ run[r].doc /\ ~run'[r].faulted
           /\ ~Exists(run[r].doc_id))
          => /\ run'[r].pc = "returned"
             /\ run'[r].exc = NoException
             /\ ~Exists(run[r].doc_id)'
             /\ \A j \in processing_jobs' : j.document_id # run[r].doc_id
             /\ \A sec \in sections' : sec.document_id # run[r].doc_id]_vars

\* A text that has only whitespace.
IsBlank(s) == \A i \in 1..Len(s) : isspace(s[i])

\* C18: parse_sections returns a non-empty list for every non-empty text, and
\* for a non-empty text with only blank lines exactly one section of type
\* body whose content is the whole text.
C18_ParseSectionsNeverEmpty ==
    (call.fn = "parse_sections" /\ call.arg # <<>>)
    => /\ Len(call.result) >= 1
       /\ IsBlank(call.arg)
            => call.result = <<[type |-> "body", content |-> call.arg]>>

\* C18 witness: parse_sections was called on a text of several blank lines
\* and returned the single body section holding it.
C18_Witness ==
    /\ call.fn = "parse_sections"
    /\ Len(call.arg) >= 2 /\ IsBlank(call.arg) /\ NL \in {call.arg[i] : i \in 1..Len(call.arg)}
    /\ call.result = <<[type |-> "body", content |-> call.arg]>>

\* The number of '#' characters at the start of s.
RECURSIVE HashCount(_)
HashCount(s) == IF s # <<>> /\ Head(s) = "#" THEN 1 + HashCount(Tail(s)) ELSE 0

\* The length of the heading marker at the start of s: one, two or three '#'
\* and a space, followed by text; 0 when s starts with no such marker.
MarkerLength(s) ==
    LET k == HashCount(s)
    IN  IF k \in 1..3 /\ Len(s) > k + 1 /\ s[k + 1] = " "
           /\ ~IsBlank(DropFirst(s, k + 1))
        THEN k + 1 ELSE 0

RECURSIVE ConcatContents(_)
\* The contents of a list of sections, concatenated in order.
ConcatContents(secs) ==
    IF secs = <<>> THEN <<>> ELSE Head(secs).content \o ConcatContents(Tail(secs))

RECURSIVE NormalisedLines(_, _)
\* The non-blank lines of a list of lines, each trimmed; with markers = TRUE a
\* heading marker is taken off a line first.
NormalisedLines(lines, markers) ==
    IF lines = <<>> THEN <<>>
    ELSE LET l == Strip(Head(lines))
             t == IF markers THEN Strip(DropFirst(l, MarkerLength(l))) ELSE l
         IN  (IF l = <<>> THEN <<>> ELSE <<t>>)
                 \o NormalisedLines(Tail(lines), markers)

\* C19: for every non-empty text, the contents of the sections returned by
\* parse_sections, concatenated in order and split into lines, are the lines
\* of the input with heading markers taken off, blank lines dropped and
\* surrounding whitespace trimmed: none lost, duplicated or reordered.
C19_ContentsReproduceInput ==
    (call.fn = "parse_sections" /\ call.arg # <<>>)
    => NormalisedLines(Split(ConcatContents(call.result), NL), FALSE)
         = NormalisedLines(Split(call.arg, NL), TRUE)

\* C19 witness: parse_sections was called on a text with a body line, a blank
\* line and a heading, and returned two sections.
C19_Witness ==
    /\ call.fn = "parse_sections"
    /\ call.arg = <<"a", NL, NL, "#", " ", "a">>
    /\ Len(call.result) = 2

\* The line as the heading rules look at it: trimmed or as it is.
Seen(line, trimmed) == IF trimmed THEN Strip(line) ELSE line

\* The section type a heading marker of length m opens.
HeadingType(m) ==
    CASE m = 2 -> "title" [] m = 3 -> "section" [] OTHER -> "subsection"

\* The indices of the heading lines.
HeadingLines(lines, trimmed) ==
    {i \in 1..Len(lines) : MarkerLength(Seen(lines[i], trimmed)) > 0}

\* The first heading line after line i, or one past the last line.
NextHeading(lines, trimmed, i) ==
    LET later == {h \in HeadingLines(lines, trimmed) : h > i}
    IN  IF later = {} THEN Len(lines) + 1
        ELSE CHOOSE h \in later : \A g \in later : h <= g

RECURSIVE JoinLines(_, _, _)
\* Lines a..b, each followed by a newline.
JoinLines(lines, a, b) ==
    IF a > b THEN <<>> ELSE lines[a] \o <<NL>> \o JoinLines(lines, a + 1, b)

RECURSIVE SectionsFrom(_, _, _)
\* One section per heading line from line h on: the heading's text and the
\* lines up to the next heading.
SectionsFrom(lines, trimmed, h) ==
    IF h > Len(lines) THEN <<>>
    ELSE LET seen == Seen(lines[h], trimmed)
             m == MarkerLength(seen)
             next == NextHeading(lines, trimmed, h)
         IN  <<[type |-> HeadingType(m),
                content |-> DropFirst(seen, m) \o <<NL>>
                              \o JoinLines(lines, h + 1, next - 1)]>>
                 \o SectionsFrom(lines, trimmed, next)

\* The sections the heading rules describe: a leading body section if
\* non-blank text precedes the first heading, then one per heading line.
ExpectedSections(text, trimmed) ==
    LET lines == Split(text, NL)
        first == NextHeading(lines, trimmed, 0)
        leading == JoinLines(lines, 1, first - 1)
    IN  (IF IsBlank(leading) THEN <<>>
         ELSE <<[type |-> "body", content |-> leading]>>)
            \o SectionsFrom(lines, trimmed, first)

TypesOf(secs) == [i \in 1..Len(secs) |-> secs[i].type]

\* C20 as stated: a line beginning with '# ', '## ' or '### ' and text opens a
\* title, section or subsection, every other line goes to the open section,
\* and the output has exactly one section per heading line, in input order,
\* plus a leading body section only if non-blank text precedes the first
\* heading.
C20_OneSectionPerHeadingLine ==
    call.fn = "parse_sections"
    => TypesOf(call.result) = TypesOf(ExpectedSections(call.arg, FALSE))

\* C20 amended: the heading rules look at the line with surrounding
\* whitespace trimmed; for a text with a non-blank line the output is exactly
\* one section per heading line, in input order, holding the heading's text
\* and the lines up to the next heading, plus a leading body section only if
\* non-blank text precedes the first heading; a text without a non-blank line
\* gives the single body section holding the text.
C20_OneSectionPerTrimmedHeadingLine ==
    call.fn = "parse_sections"
    => IF IsBlank(call.arg)
       THEN call.result = <<[type |-> "body", content |-> call.arg]>>
       ELSE call.result = ExpectedSections(call.arg, TRUE)

\* C20 witness: a text with a body line, a title and a bare '#' gives a body
\* section and a title section that holds the bare marker's line.
C20_Witness ==
    /\ call.fn = "parse_sections"
    /\ call.arg = <<"a", NL, "#", " ", "a", NL, "#">>
    /\ call.result = <<[type |-> "body", content |-> <<"a", NL>>],
                       [type |-> "title", content |-> <<"a", NL, "#", NL>>]>>

\* ------------------------------------------------------------------- C21
\* _calculate_quality in tenths, before the final max(0.0, min(1.0, score)).
RawQuality(text) == _calculate_quality_without_clamp(text)

\* C21: _calculate_quality returns a value in [0.0, 1.0] (0..10 tenths) for
\* every text, the same value when it is called again on the same text, and
\* exactly 0.0 for every text of fewer than 100 characters, the empty text
\* included.
C21_QualityInRangeDeterministicZeroWhenShort ==
    call.fn = "_calculate_quality" =>
        /\ call.result \in 0..10
        /\ call.again = call.result
        /\ Len(call.arg) < 100 => call.result = 0

\* C21 witness: _calculate_quality was called on a text of at least 100
\* characters whose score before the clamp is above 1.0, and returned 1.0.
C21_Witness ==
    /\ call.fn = "_calculate_quality"
    /\ Len(call.arg) >= 100
    /\ RawQuality(call.arg) > 10
    /\ call.result = 10

Failing(r) == run[r].msg # <<>>

\* C22: one invocation of process_document reaches the construction of the
\* ProcessingJob at most once and hands the extraction to the executor at
\* most once; once it has entered the failure path it only commits the
\* failure and raises: it does not go back into the try block, starts no
\* extraction, and does not change a Document row that is FAILED to another
\* status; a run that has ended takes no further step.
C22_NoRetryInsidePipeline ==
    [][\A r \in RunIds :
          /\ run'[r].job_attempts <= 1
          /\ run'[r].extraction_starts <= 1
          /\ Finished(r) => run'[r] = run[r]
          /\ Failing(r) =>
                /\ run'[r].pc \in {"commit_failed", "raised"}
                /\ run'[r].job_attempts = run[r].job_attempts
                /\ run'[r].extraction_starts = run[r].extraction_starts
                /\ run'[r] # run[r] =>
                      \A old \in documents, new \in documents' :
                          /\ old.id = run[r].doc_id
                          /\ new.id = run[r].doc_id
                          /\ old.status = ProcessingStatus.FAILED
                          => new.status = ProcessingStatus.FAILED]_vars

\* C22 witness: a run reached the job construction once, started no
\* extraction, recorded the failure and raised; its Document is FAILED.
C22_Witness ==
    \E r \in RunIds :
        /\ run[r].pc = "raised"
        /\ run[r].job_attempts = 1
        /\ run[r].extraction_starts = 0
        /\ Exists(run[r].doc_id)
        /\ Row(run[r].doc_id).status = ProcessingStatus.FAILED

C30_RunTouchesOnlyItsDocument ==
    [][\A r \in RunIds :
          run[r].pc # "idle" /\ run'[r] # run[r] =>
              /\ {row \in documents' : row.id # run[r].doc_id}
                    = {row \in documents : row.id # run[r].doc_id}
              /\ {s \in sections' : s.document_id # run[r].doc_id}
                    = {s \in sections : s.document_id # run[r].doc_id}
              /\ {j \in processing_jobs' : j.document_id # run[r].doc_id}
                    = {j \in processing_jobs : j.document_id # run[r].doc_id}
              /\ \A d \in DocIds \ {run[r].doc_id} :
                    processed'[d] = processed[d] /\ uploads'[d] = uploads[d]]_vars

\* C30 witness: runs on two distinct documents were interleaved: one has
\* recorded FAILED on its Document while the other's Document is still
\* PROCESSING.
C30_Witness ==
    \E r1 \in RunIds, r2 \in RunIds :
        /\ run[r1].doc_id # run[r2].doc_id
        /\ run[r1].pc = "raised"
        /\ run[r2].pc = "commit_failed"
        /\ Exists(run[r1].doc_id)
        /\ Exists(run[r2].doc_id)
        /\ Row(run[r1].doc_id).status = ProcessingStatus.FAILED
        /\ Row(run[r2].doc_id).status = ProcessingStatus.PROCESSING

\* ------------------------------------------------------------------- C31
\* The maximal runs <<first, last>> of positions of s whose characters are
\* not in the set seps.
RunsOutside(s, seps) ==
    LET firsts == {i \in 1..Len(s) : s[i] \notin seps /\ (i = 1 \/ s[i - 1] \in seps)}
        lasts == {j \in 1..Len(s) : s[j] \notin seps /\ (j = Len(s) \/ s[j + 1] \in seps)}
    IN  {<<i, j>> \in firsts \X lasts :
            /\ i <= j
            /\ \A k \in lasts : ~(i <= k /\ k < j)}

\* The quality score of the specification for a text of at least 100
\* characters, in tenths.
ExpectedQuality(text) ==
    LET n == Len(text)
        alphaOrSpace == Cardinality({i \in 1..n : text[i] \in Lowercase \cup Uppercase \cup Whitespace})
        noise == Cardinality({i \in 1..n :
                    text[i] \notin Lowercase \cup Uppercase \cup Digits
                                    \cup Whitespace \cup AllowedPunctuation})
        alphaWords == {w \in RunsOutside(text, Whitespace) :
                          \A k \in w[1]..w[2] : text[k] \in Lowercase \cup Uppercase}
        letters == Cardinality({k \in 1..n : \E w \in alphaWords : w[1] <= k /\ k <= w[2]})
        stops == {".", "!", "?"}
        sentences == {p \in RunsOutside(text, stops) :
                         \E k \in p[1]..p[2] : text[k] \notin Whitespace}
        sentenceWords == Cardinality(RunsOutside(text, stops \cup Whitespace))
        hasTerm == \E term \in research_terms :
                       \E i \in 1..(n - Len(term) + 1) :
                           \A k \in 1..Len(term) : lower(text[i + k - 1]) = term[k]
        lowAlpha == IF 10 * alphaOrSpace < 7 * n THEN 3 ELSE 0
        noisy == IF 100 * noise > 15 * n THEN 2 ELSE 0
        wordLength == IF alphaWords = {} THEN 0
                      ELSE IF letters < 3 * Cardinality(alphaWords) THEN 3
                      ELSE IF letters > 10 * Cardinality(alphaWords) THEN 1
                      ELSE 0
        prose == IF /\ Cardinality(sentences) > 5
                    /\ sentenceWords > 5 * Cardinality(sentences)
                    /\ sentenceWords < 50 * Cardinality(sentences)
                 THEN 1 ELSE 0
        term == IF hasTerm THEN 1 ELSE 0
    IN  Max(0, Min(10, 10 - lowAlpha - noisy - wordLength + prose + term))

\* C31: for a text of at least 100 characters the quality score is the clamp
\* to [0.0, 1.0] of 1.0, minus 0.3 if the alpha-or-space ratio is below 0.7,
\* minus 0.2 if the noise ratio is above 0.15, minus 0.3 if the mean length
\* of the alphabetic words is below 3 or minus 0.1 if it is above 10, plus
\* 0.1 if there are more than 5 sentences with a mean of words per sentence
\* strictly between 5 and 50, plus 0.1 if a research term occurs.
C31_QualityIsTheStatedFormula ==
    call.fn = "_calculate_quality" /\ Len(call.arg) >= 100 =>
        call.result = ExpectedQuality(call.arg)

\* C31 witness: _calculate_quality was called on a text of more than five
\* sentences of exactly five words each, of which the mean length of the
\* alphabetic words is below 3, and returned 0.7: the deduction for short
\* words and no bonus for the sentences.
C31_Witness ==
    /\ call.fn = "_calculate_quality"
    /\ Len(call.arg) >= 100
    /\ Cardinality(SentenceStarts(call.arg)) > 5
    /\ SentenceWordCount(call.arg) = 5 * Cardinality(SentenceStarts(call.arg))
    /\ call.result = 7

\* ------------------------------------------------------------------- C32
\* The rank of a class: heading level 1 is the highest, a plain run the lowest.
HeadingRank(level) == IF level = 0 THEN 0 ELSE 4 - level

\* The class the stated rules give to a size (in tenths of a point) and a
\* bold flag, the first matching rule deciding.
StatedClass(size, bold) ==
    CASE size > 160 \/ (size > 140 /\ bold) -> 1
      [] ~(size > 160 \/ (size > 140 /\ bold))
         /\ (size > 130 \/ (size > 110 /\ bold)) -> 2
      [] ~(size > 160 \/ (size > 140 /\ bold))
         /\ ~(size > 130 \/ (size > 110 /\ bold))
         /\ size > 115 -> 3
      [] OTHER -> 0

\* C32: a line is classified from the font size and bold flag of its first
\* span by the first matching rule: size > 16, or size > 14 and bold, gives
\* heading level 1; else size > 13, or size > 11 and bold, gives level 2;
\* else size > 11.5 gives level 3; else a plain run. Every pair gets exactly
\* one class, and a bold line never gets a lower heading rank than a
\* non-bold line of the same size.
C32_HeadingClassByFirstMatchingRule ==
    call.fn = "header_detection" =>
        LET size == font_size(call.arg)
            bold == is_bold(call.arg)
        IN  /\ call.result \in 0..3
            /\ call.result = StatedClass(size, bold)
            /\ HeadingRank(HeaderDetection(<<Some(size), Some(16)>>))
                  >= HeadingRank(HeaderDetection(<<Some(size), Some(0)>>))

\* C32 witness: a bold line of 11.5 points was classified as a level 2
\* heading, where a non-bold line of that size is a plain run.
C32_Witness ==
    /\ call.fn = "header_detection"
    /\ font_size(call.arg) = 115
    /\ is_bold(call.arg)
    /\ call.result = 2
    /\ HeaderDetection(<<Some(115), Some(0)>>) = 0

\* ------------------------------------------------------------------- C33
\* The queued tasks and the invocations of process_document for a document.
TasksOf(d) == {task \in background_tasks : task.doc_id = d}

\* C33: each accepted upload persists exactly one Document, in status
\* UPLOADED, and schedules exactly one run of process_document with the
\* document's ID and stored file path: after the upload has returned the
\* Document row exists, it is UPLOADED as long as the task is queued, and the
\* task is either still queued or has become one invocation of
\* process_document for that ID.
C33_AcceptedUploadPersistsAndSchedules ==
    response.handler = "upload_document" /\ response.outcome = "returned" =>
        /\ Cardinality({row \in documents : row.id = response.doc_id}) = 1
        /\ Cardinality(TasksOf(response.doc_id)) + Invocations(response.doc_id) = 1
        /\ TasksOf(response.doc_id) # {} =>
              \A row \in documents :
                  row.id = response.doc_id => row.status = ProcessingStatus.UPLOADED

\* ------------------------------------------------------------------- C39
ValidationFailures ==
    {"ValidationException", "UnsupportedFileTypeException",
     "FileSizeExceededException"}

\* C39: an upload rejected by validation (no or disallowed extension, empty
\* file, file above the maximum) saves no file, creates no row and queues no
\* task; and when the upload got past saving the file and no Document row
\* was created for the generated ID, the saved file is deleted, no task is
\* queued and a DatabaseException is returned.
C39_UploadFailureLeavesNothingBehind ==
    [][(response'.handler = "upload_document"
          /\ <<response, created>>' # <<response, created>>) =>
          /\ response'.outcome \in ValidationFailures =>
                UNCHANGED <<documents, uploads, background_tasks, created>>
          /\ (/\ response'.doc_id # ""
               /\ response'.outcome # "FileOperationException"
               /\ \A row \in documents' : row.id # response'.doc_id) =>
                /\ uploads'[response'.doc_id] = "absent"
                /\ \A task \in background_tasks' : task.doc_id # response'.doc_id
                /\ response'.outcome = "DatabaseException"]_vars

\* ------------------------------------------------------------------- C34
GuardedReads ==
    {"get_document_content", "get_document_text", "get_document_markdown",
     "get_document_summary"}

\* C34: the content, text, markdown and summary reads return a body only
\* when the Document they selected is COMPLETED; for a Document that is
\* UPLOADED, PROCESSING or FAILED they answer 400 "Document not ready" with
\* that status and no body.
C34_ReadsOnlyWhenCompleted ==
    [][(response' # response /\ response'.handler \in GuardedReads) =>
          /\ response'.body # NULL =>
                /\ Exists(response'.doc_id)
                /\ Row(response'.doc_id).status = ProcessingStatus.COMPLETED
          /\ (/\ Exists(response'.doc_id)
               /\ Row(response'.doc_id).status \in
                     {ProcessingStatus.UPLOADED, ProcessingStatus.PROCESSING,
                      ProcessingStatus.FAILED}) =>
                /\ response'.status_code = 400
                /\ response'.outcome = "Document not ready"
                /\ response'.detail = Row(response'.doc_id).status
                /\ response'.body = NULL]_vars

\* A guarded read of a document that a run has marked FAILED was answered
\* 400 with that status.
C34_Witness ==
    /\ response.handler \in GuardedReads
    /\ response.status_code = 400
    /\ response.detail = ProcessingStatus.FAILED
    /\ Exists(response.doc_id)
    /\ Row(response.doc_id).status = ProcessingStatus.FAILED
    /\ Row(response.doc_id).extracted_text = NULL

\* ------------------------------------------------------------------- C37
\* Every invocation of process_document for document d has ended.
RunsEnded(d) ==
    \A r \in RunIds : run[r].pc # "idle" /\ run[r].doc_id = d => Finished(r)

C38_LoadsAtMostOnce ==
    /\ summarizer.tokenizer_loads <= 1
    /\ summarizer.pipeline_loads <= 1
    /\ summarizer._tokenizer <=> summarizer.tokenizer_loads = 1
    /\ summarizer._pipeline <=> summarizer.pipeline_loads = 1
    /\ (\A c \in Callers : summarizer.pc[c] \in {"idle", "ValueError"}) =>
           ~summarizer._tokenizer
    /\ (\A c \in Callers :
           summarizer.pc[c] \in {"idle", "ValueError", "tokenizer_check",
                                 "tokenizer_acquire", "tokenizer_recheck",
                                 "tokenizer_load", "pipeline_check", "LoadError"}) =>
           ~summarizer._pipeline
    /\ summarizer._pipeline => summarizer._tokenizer
    /\ \A c \in Callers :
           /\ summarizer._lock = c <=> summarizer.pc[c] \in LockedSteps
           /\ summarizer.pc[c] = "done" => summarizer._pipeline
           /\ summarizer.pc[c] = "LoadError" => faults > 0
           /\ summarizer.pc[c] # "nested_tokenizer_acquire"

\* C38: under any interleaving of concurrent summarize() calls the tokenizer
\* and the pipeline are each loaded at most once and only when first needed,
\* and no caller blocks forever on the lock: every call of summarize() ends,
\* with the pipeline obtained unless a load raised.
C38_EveryCallerObtainsThePipeline ==
    /\ []C38_LoadsAtMostOnce
    /\ \A c \in Callers :
           (summarizer.pc[c] # "idle") ~> (summarizer.pc[c] \in EndSteps)

\* C38 witness: all callers called summarize() with text, one load failed
\* once, tokenizer and pipeline were each loaded exactly once, and two
\* callers hold the pipeline.
C38_Witness ==
    /\ summarizer.tokenizer_loads = 1
    /\ summarizer.pipeline_loads = 1
    /\ summarizer._lock = 0
    /\ \E c \in Callers : summarizer.pc[c] = "LoadError"
    /\ Cardinality({c \in Callers : summarizer.pc[c] = "done"}) = MaxCallers - 1
====
